---- MODULE Spec2Model ----
(***************************************************************************)
(* A model of cfit's expression composer (class Pdf) and of its three-body *)
(* decay density (class Decay3Body).                                       *)
(*                                                                         *)
(* Names of variables and parameters are integers, so that the ordering of *)
(* std::map keys and of sorted name vectors is the ordering of Int.        *)
(* Values of type double are exact rationals <<numerator, denominator>>.   *)
(***************************************************************************)
EXTENDS Integers, Sequences, FiniteSets, TLC

\* Longest token sequence (_expression) the composite is allowed to grow to.
MaxLen == 4
\* Longest token sequence of the composite the positional setters are run on.
MaxSetLen == 2
\* Longest positional vector passed to setVars/setPars.
MaxVec == 2

----------------------------------------------------------------------------
(* Sorted name vectors and the <algorithm> merges over them.               *)

Min(S) == CHOOSE x \in S : \A y \in S : x <= y

RECURSIVE SortedSeq(_)
SortedSeq(S) == IF S = {} THEN <<>>
                ELSE LET m == Min(S) IN <<m>> \o SortedSeq(S \ {m})

RECURSIVE SetIntersection(_, _)
SetIntersection(a, b) ==
  IF a = <<>> \/ b = <<>> THEN <<>>
  ELSE IF Head(a) < Head(b) THEN SetIntersection(Tail(a), b)
  ELSE IF Head(b) < Head(a) THEN SetIntersection(a, Tail(b))
  ELSE <<Head(a)>> \o SetIntersection(Tail(a), Tail(b))

RECURSIVE SetUnion(_, _)
SetUnion(a, b) ==
  IF a = <<>> THEN b
  ELSE IF b = <<>> THEN a
  ELSE IF Head(a) < Head(b) THEN <<Head(a)>> \o SetUnion(Tail(a), b)
  ELSE IF Head(b) < Head(a) THEN <<Head(b)>> \o SetUnion(a, Tail(b))
  ELSE <<Head(a)>> \o SetUnion(Tail(a), Tail(b))

\* std::map::insert( first, last ): a key already present keeps its value.
MapInsert(dst, src) ==
  [n \in DOMAIN dst \cup DOMAIN src |-> IF n \in DOMAIN dst THEN dst[n] ELSE src[n]]

\* map[ key ] = value: a key already present is overwritten.
MapAssign(dst, key, val) ==
  [n \in DOMAIN dst \cup {key} |-> IF n = key THEN val ELSE dst[n]]

EmptyMap == [n \in {} |-> 0]

----------------------------------------------------------------------------
(* Exact arithmetic on doubles, as rationals <<n, d>> with d > 0.          *)

Abs(x) == IF x < 0 THEN -x ELSE x

RECURSIVE GCD(_, _)
GCD(a, b) == IF b = 0 THEN a ELSE GCD(b, a % b)

Rat(n, d) ==
  IF d = 0 THEN <<(IF n > 0 THEN 1 ELSE IF n < 0 THEN -1 ELSE 0), 0>>
  ELSE LET g == GCD(Abs(n), Abs(d))
           s == IF d < 0 THEN -1 ELSE 1
       IN <<(s * n) \div g, (s * d) \div g>>

RInt(k) == <<k, 1>>

RECURSIVE IntPow(_, _)
IntPow(b, e) == IF e = 0 THEN 1 ELSE b * IntPow(b, e - 1)

----------------------------------------------------------------------------
(* The primitive density models the composite refers to.                   *)

ModelIds == {"A", "B", "C", "D"}

\* The variable names and parameter names each model declares.
ModelVarNames(m) == CASE m = "A" -> {1} [] m = "B" -> {2}
                      [] m = "C" -> {1} [] m = "D" -> {1, 2}
ModelParNames(m) == CASE m = "A" -> {1} [] m = "B" -> {2}
                      [] m = "C" -> {1, 3} [] m = "D" -> {}

VARIABLES
  expression,  \* Pdf::_expression, a sequence of the tags m, p, c, b, u
  pdfs,        \* Pdf::_pdfs, handles of the models in token order
  pars,        \* Pdf::_pars, parameter copies in token order
  ctnts,       \* Pdf::_ctnts, constants in token order
  opers,       \* Pdf::_opers, operator identifiers in token order
  varMap,      \* Pdf::_varMap, name -> value
  parMap,      \* Pdf::_parMap, name -> value
  modelVarMap, \* PdfModel::_varMap of every model, name -> value
  modelParMap, \* PdfModel::_parMap of every model, name -> value
  last         \* the last call made on the composite, and its outcome

pdfVars == <<expression, pdfs, pars, ctnts, opers, varMap, parMap,
             modelVarMap, modelParMap, last>>

\* The composite as one value.
This == [expression |-> expression, pdfs |-> pdfs, pars |-> pars,
         ctnts |-> ctnts, opers |-> opers, varMap |-> varMap, parMap |-> parMap]

EmptyPdf == [expression |-> <<>>, pdfs |-> <<>>, pars |-> <<>>,
             ctnts |-> <<>>, opers |-> <<>>, varMap |-> EmptyMap, parMap |-> EmptyMap]

\* Pdf::varNames() and PdfModel::varNames(): the sorted keys of _varMap.
VarNames(map) == SortedSeq(DOMAIN map)

----------------------------------------------------------------------------
(* Pdf::append, one operator per overload.                                 *)

AppendModel(p, m) ==
  [p EXCEPT !.varMap = MapInsert(p.varMap, modelVarMap[m]),
            !.parMap = MapInsert(p.parMap, modelParMap[m]),
            !.pdfs = Append(p.pdfs, m),
            !.expression = Append(p.expression, "m")]

AppendPdf(p, q) ==
  [p EXCEPT !.varMap = MapInsert(p.varMap, q.varMap),
            !.parMap = MapInsert(p.parMap, q.parMap),
            !.opers = p.opers \o q.opers,
            !.ctnts = p.ctnts \o q.ctnts,
            !.pars = p.pars \o q.pars,
            !.pdfs = p.pdfs \o q.pdfs,
            !.expression = p.expression \o q.expression]

AppendPar(p, par) ==
  [p EXCEPT !.parMap = MapAssign(p.parMap, par.name, par.value),
            !.pars = Append(p.pars, par),
            !.expression = Append(p.expression, "p")]

RECURSIVE AssignAll(_, _)
AssignAll(map, ps) ==
  IF ps = <<>> THEN map
  ELSE AssignAll(MapAssign(map, Head(ps).name, Head(ps).value), Tail(ps))

\* A variant that does not copy the constants of the expression.
AppendExpr_NoCtnts(p, e) ==
  [p EXCEPT !.parMap = AssignAll(p.parMap, e.pars),
            !.opers = p.opers \o e.opers,
            !.pars = p.pars \o e.pars,
            !.expression = p.expression \o e.expression]

AppendExpr(p, e) ==
  [p EXCEPT !.parMap = AssignAll(p.parMap, e.pars),
            !.opers = p.opers \o e.opers,
            !.ctnts = p.ctnts \o e.ctnts,
            !.pars = p.pars \o e.pars,
            !.expression = p.expression \o e.expression]

AppendCtnt(p, c) ==
  [p EXCEPT !.ctnts = Append(p.ctnts, c),
            !.expression = Append(p.expression, "c")]

AppendOper(p, op) ==
  [p EXCEPT !.opers = Append(p.opers, op),
            !.expression = Append(p.expression, "b")]

----------------------------------------------------------------------------
(* The composition operators. Each yields the composite after the call and *)
(* whether the call threw.                                                 *)

Done(p) == [err |-> FALSE, pdf |-> p]
Threw(p) == [err |-> TRUE, pdf |-> p]

\* operator=( const PdfModel& )
Assign(p, m) == Done(AppendModel(p, m))

\* A variant that appends the model before it compares the variables.
PlusAssignModel_AppendFirst(p, m) ==
  LET q == AppendModel(p, m)
  IN IF VarNames(p.varMap) # VarNames(modelVarMap[m]) THEN Threw(q)
     ELSE Done(AppendOper(q, "plus"))

\* operator+=( const PdfModel& )
PlusAssignModel(p, m) ==
  IF VarNames(p.varMap) # VarNames(modelVarMap[m]) THEN Threw(p)
  ELSE Done(AppendOper(AppendModel(p, m), "plus"))

\* operator*=( const PdfModel& )
TimesAssignModel(p, m) ==
  LET theseVars == VarNames(p.varMap)
      rightVars == VarNames(modelVarMap[m])
      intersect == SetIntersection(theseVars, rightVars)
  IN IF intersect # <<>> THEN Threw(p)
     ELSE Done(AppendOper(AppendModel(p, m), "mult"))

\* operator+=( const Pdf& )
PlusAssignPdf(p, q) ==
  IF VarNames(p.varMap) # VarNames(q.varMap) THEN Threw(p)
  ELSE Done(AppendOper(AppendPdf(p, q), "plus"))

\* A variant that refuses only a sub-expression over the very same variables.
TimesAssignPdf_SameOnly(p, q) ==
  IF VarNames(p.varMap) = VarNames(q.varMap) /\ VarNames(q.varMap) # <<>> THEN Threw(p)
  ELSE Done(AppendOper(AppendPdf(p, q), "mult"))

\* operator*=( const Pdf& )
TimesAssignPdf(p, q) ==
  LET theseVars == VarNames(p.varMap)
      rightVars == VarNames(q.varMap)
      intersect == SetIntersection(theseVars, rightVars)
  IN IF intersect # <<>> THEN Threw(p)
     ELSE Done(AppendOper(AppendPdf(p, q), "mult"))

\* operator*=( const Parameter& ) and operator/=( const Parameter& )
TimesAssignPar(p, par) == Done(AppendOper(AppendPar(p, par), "mult"))
DivAssignPar(p, par) == Done(AppendOper(AppendPar(p, par), "div"))

\* operator*=( const ParameterExpr& ) and operator/=( const ParameterExpr& )
TimesAssignExpr(p, e) == Done(AppendOper(AppendExpr(p, e), "mult"))
DivAssignExpr(p, e) == Done(AppendOper(AppendExpr(p, e), "div"))

\* operator*=( const double& ) and operator/=( const double& )
TimesAssignCtnt(p, c) == Done(AppendOper(AppendCtnt(p, c), "mult"))
DivAssignCtnt(p, c) == Done(AppendOper(AppendCtnt(p, c), "div"))

----------------------------------------------------------------------------
(* Pdf::operate and Pdf::evaluate.                                         *)

\* A variant whose division puts the right operand over the left.
Operate2_RightOverLeft(x, y, oper) ==
  IF oper = "plus" THEN <<"ok", Rat(x[1] * y[2] + y[1] * x[2], x[2] * y[2])>>
  ELSE IF oper = "minus" THEN <<"ok", Rat(x[1] * y[2] - y[1] * x[2], x[2] * y[2])>>
  ELSE IF oper = "mult" THEN <<"ok", Rat(x[1] * y[1], x[2] * y[2])>>
  ELSE IF oper = "div" THEN <<"ok", Rat(y[1] * x[2], y[2] * x[1])>>
  ELSE IF oper = "pow" THEN
    <<"ok", IF y[2] = 1 /\ y[1] >= 0 THEN Rat(IntPow(x[1], y[1]), IntPow(x[2], y[1]))
            ELSE IF y[2] = 1 THEN Rat(IntPow(x[2], -y[1]), IntPow(x[1], -y[1]))
            ELSE <<0, 0>>>>
  ELSE <<"unknown">>

\* Binary operations. The result is <<"ok", value>> or <<"unknown">>.
Operate2(x, y, oper) ==
  IF oper = "plus" THEN <<"ok", Rat(x[1] * y[2] + y[1] * x[2], x[2] * y[2])>>
  ELSE IF oper = "minus" THEN <<"ok", Rat(x[1] * y[2] - y[1] * x[2], x[2] * y[2])>>
  ELSE IF oper = "mult" THEN <<"ok", Rat(x[1] * y[1], x[2] * y[2])>>
  ELSE IF oper = "div" THEN <<"ok", Rat(x[1] * y[2], x[2] * y[1])>>
  ELSE IF oper = "pow" THEN
    \* std::pow with an integral exponent; other exponents are not among the inputs.
    <<"ok", IF y[2] = 1 /\ y[1] >= 0 THEN Rat(IntPow(x[1], y[1]), IntPow(x[2], y[1]))
            ELSE IF y[2] = 1 THEN Rat(IntPow(x[2], -y[1]), IntPow(x[1], -y[1]))
            ELSE <<0, 0>>>>
  ELSE <<"unknown">>

\* Unary operations. exp, log, sin, cos and tan have no rational value and
\* are not among the inputs.
Operate1(x, oper) ==
  IF oper = "minus" THEN <<"ok", <<-x[1], x[2]>>>>
  ELSE <<"unknown">>

\* PdfModel::evaluate() of the stub models, at the model's own variables.
ModelEvaluate(m) ==
  CASE m = "A" -> RInt(2)
    [] m = "B" -> RInt(3)
    [] m = "C" -> RInt(modelVarMap[m][1] + modelParMap[m][1])
    [] m = "D" -> RInt(modelVarMap[m][1] * modelVarMap[m][2])

EvalResult(status, value, at) == [status |-> status, value |-> value, consumed |-> at]

\* The loop of Pdf::evaluate(): ch is the index of the next token, pdf, par,
\* ctt and ops are the four iterators, values is the operand stack (top last).
RECURSIVE EvalLoop(_, _, _, _, _, _, _)
EvalLoop(p, ch, pdf, par, ctt, ops, values) ==
  IF ch > Len(p.expression) THEN
    IF Len(values) # 1 THEN EvalResult("toomany", <<0, 0>>, ch - 1)
    ELSE EvalResult("ok", values[Len(values)], ch - 1)
  ELSE LET tok == p.expression[ch] IN
    IF tok = "m" THEN
      IF pdf > Len(p.pdfs) THEN EvalResult("overrun", <<0, 0>>, ch - 1)
      ELSE EvalLoop(p, ch + 1, pdf + 1, par, ctt, ops,
                    Append(values, ModelEvaluate(p.pdfs[pdf])))
    ELSE IF tok = "p" THEN
      IF par > Len(p.pars) THEN EvalResult("overrun", <<0, 0>>, ch - 1)
      ELSE EvalLoop(p, ch + 1, pdf, par + 1, ctt, ops,
                    Append(values, RInt(p.parMap[p.pars[par].name])))
    ELSE IF tok = "c" THEN
      IF ctt > Len(p.ctnts) THEN EvalResult("overrun", <<0, 0>>, ch - 1)
      ELSE EvalLoop(p, ch + 1, pdf, par, ctt + 1, ops,
                    Append(values, RInt(p.ctnts[ctt])))
    ELSE IF tok = "b" THEN
      IF Len(values) < 2 THEN EvalResult("underflow", <<0, 0>>, ch - 1)
      ELSE IF ops > Len(p.opers) THEN EvalResult("overrun", <<0, 0>>, ch - 1)
      ELSE LET y == values[Len(values)]
               x == values[Len(values) - 1]
               r == Operate2(x, y, p.opers[ops])
           IN IF r[1] # "ok" THEN EvalResult("unknown", <<0, 0>>, ch - 1)
              ELSE EvalLoop(p, ch + 1, pdf, par, ctt, ops + 1,
                            Append(SubSeq(values, 1, Len(values) - 2), r[2]))
    ELSE IF tok = "u" THEN
      IF values = <<>> THEN EvalResult("underflow", <<0, 0>>, ch - 1)
      ELSE IF ops > Len(p.opers) THEN EvalResult("overrun", <<0, 0>>, ch - 1)
      ELSE LET x == values[Len(values)]
               r == Operate1(x, p.opers[ops])
           IN IF r[1] # "ok" THEN EvalResult("unknown", <<0, 0>>, ch - 1)
              ELSE EvalLoop(p, ch + 1, pdf, par, ctt, ops + 1,
                            Append(SubSeq(values, 1, Len(values) - 1), r[2]))
    ELSE EvalResult("unknown", <<0, 0>>, ch - 1)

\* Pdf::evaluate()
Evaluate(p) == EvalLoop(p, 1, 1, 1, 1, 1, <<>>)

----------------------------------------------------------------------------
(* Pdf::commonVars.                                                        *)

NamesResult(status, value) == [status |-> status, value |-> value]

\* The loop of Pdf::commonVars(): models is the iterator over _pdfs, varNames
\* the vector the names of every model are appended to, calcs the stack.
RECURSIVE CommonLoop(_, _, _, _, _)
CommonLoop(p, ch, models, varNames, calcs) ==
  IF ch > Len(p.expression) THEN
    IF Len(calcs) # 1 THEN NamesResult("toomany", <<>>)
    ELSE NamesResult("ok", calcs[Len(calcs)])
  ELSE LET tok == p.expression[ch] IN
    IF tok = "m" THEN
      IF models > Len(p.pdfs) THEN NamesResult("overrun", <<>>)
      ELSE LET names == varNames \o SortedSeq(DOMAIN modelVarMap[p.pdfs[models]])
           IN CommonLoop(p, ch + 1, models + 1, names, Append(calcs, names))
    ELSE IF tok = "p" THEN
      CommonLoop(p, ch + 1, models, varNames, Append(calcs, <<>>))
    ELSE IF Len(calcs) < 2 THEN NamesResult("underflow", <<>>)
    ELSE LET x == calcs[Len(calcs)]
             y == calcs[Len(calcs) - 1]
             z == IF tok = "+" THEN SetIntersection(x, y)
                  ELSE IF tok = "*" THEN SetUnion(x, y)
                  ELSE <<>>
         IN CommonLoop(p, ch + 1, models, varNames,
                       Append(SubSeq(calcs, 1, Len(calcs) - 2), z))

\* Pdf::commonVars()
CommonVars(p) == CommonLoop(p, 1, 1, <<>>, <<>>)

----------------------------------------------------------------------------
(* Pdf::setVars and Pdf::setPars.                                          *)

\* The position (from 1) of key n in the iteration over a std::map with keys S.
Rank(n, S) == Cardinality({k \in S : k <= n})

\* The value map[ name ] reads; operator[] yields a default entry when absent.
Lookup(map, n) == IF n \in DOMAIN map THEN map[n] ELSE 0

\* One pass of "propagate the values to the list of pdfs" over _pdfs.
RECURSIVE Propagate(_, _, _)
Propagate(handles, own, models) ==
  IF handles = <<>> THEN models
  ELSE LET m == Head(handles)
       IN Propagate(Tail(handles), own,
                    [models EXCEPT ![m] = [n \in DOMAIN models[m] |-> Lookup(own, n)]])

\* A variant that sets the composite's values and leaves the models alone.
SetVars_NoPropagate(p, models, vars) ==
  IF Cardinality(DOMAIN p.varMap) # Len(vars)
  THEN [err |-> TRUE, own |-> p.varMap, models |-> models]
  ELSE [err |-> FALSE, models |-> models,
        own |-> [n \in DOMAIN p.varMap |-> vars[Rank(n, DOMAIN p.varMap)]]]

\* Pdf::setVars( const std::vector< double >& ); models is every model's _varMap.
SetVars(p, models, vars) ==
  IF Cardinality(DOMAIN p.varMap) # Len(vars)
  THEN [err |-> TRUE, own |-> p.varMap, models |-> models]
  ELSE LET own == [n \in DOMAIN p.varMap |-> vars[Rank(n, DOMAIN p.varMap)]]
       IN [err |-> FALSE, own |-> own, models |-> Propagate(p.pdfs, own, models)]

\* Pdf::setPars( const std::vector< double >& ); models is every model's _parMap.
SetPars(p, models, vals) ==
  IF Cardinality(DOMAIN p.parMap) # Len(vals)
  THEN [err |-> TRUE, own |-> p.parMap, models |-> models]
  ELSE LET own == [n \in DOMAIN p.parMap |-> vals[Rank(n, DOMAIN p.parMap)]]
       IN [err |-> FALSE, own |-> own, models |-> Propagate(p.pdfs, own, models)]

----------------------------------------------------------------------------
(* Decay3Body: the three-body decay density.                               *)
(*                                                                         *)
(* Squared masses are kept as integers in units of 1 / Scale, so that the  *)
(* centres of the integration bins are integers.                           *)

\* Bins per axis of the integration grid of cache(); the code integrates on
\* a grid of 400 x 400 bins.
NBins == 2
\* Attempts of generate(); the code makes 10000.
Budget == 2
\* Auxiliary functions a density is multiplied by at most.
MaxFuncs == 2
\* Longest positional vector passed to evaluate.
MaxArgs == 4
\* Decay3Body::_maxPdf, the envelope of the accept-reject decision.
MaxPdf == 14

Scale == 2 * NBins

VARIABLES
  ps,          \* DecayModel::_ps, the masses of the mother and the daughters
  amp,         \* DecayModel::_amp, which amplitude the density wraps
  norm,        \* Decay3Body::_norm
  funcs,       \* Decay3Body::_funcs
  decayParMap, \* PdfModel::_parMap of the density, name -> value
  gen,         \* generate(): where it is, its count, its values map
  dlast,       \* the last call made on the density, and its outcome
  dret         \* what the last evaluate returned

decayVars == <<ps, amp, norm, funcs, decayParMap, gen, dlast, dret>>
vars == <<expression, pdfs, pars, ctnts, opers, varMap, parMap,
          modelVarMap, modelParMap, last,
          ps, amp, norm, funcs, decayParMap, gen, dlast, dret>>

\* PhaseSpace: bounds of the three squared invariant masses, and their sum.
MSq12min(g) == (g.m1 + g.m2) * (g.m1 + g.m2)
MSq12max(g) == (g.mMother - g.m3) * (g.mMother - g.m3)
MSq13min(g) == (g.m1 + g.m3) * (g.m1 + g.m3)
MSq13max(g) == (g.mMother - g.m2) * (g.mMother - g.m2)
MSq23min(g) == (g.m2 + g.m3) * (g.m2 + g.m3)
MSq23max(g) == (g.mMother - g.m1) * (g.mMother - g.m1)
MSqSum(g) == g.mMother * g.mMother + g.m1 * g.m1 + g.m2 * g.m2 + g.m3 * g.m3

\* PhaseSpace::contains: the point obeys the bounds of all three masses.
Contains(g, mSq12, mSq13, mSq23) ==
  /\ Scale * MSq12min(g) <= mSq12 /\ mSq12 <= Scale * MSq12max(g)
  /\ Scale * MSq13min(g) <= mSq13 /\ mSq13 <= Scale * MSq13max(g)
  /\ Scale * MSq23min(g) <= mSq23 /\ mSq23 <= Scale * MSq23max(g)

PhaseSpaces == { [mMother |-> 3, m1 |-> 0, m2 |-> 1, m3 |-> 0],
                 [mMother |-> 4, m1 |-> 1, m2 |-> 1, m3 |-> 1] }

\* std::norm( _amp.evaluate( ps, mSq12, mSq13, mSq23 ) ) of the amplitudes.
Amplitudes == {"flat", "inside", "step"}
AmpNorm(a, g, mSq12, mSq13, mSq23) ==
  CASE a = "flat" -> 1
    [] a = "inside" -> IF Contains(g, mSq12, mSq13, mSq23) THEN 2 ELSE 0
    [] a = "step" -> IF 2 * mSq12 < Scale * (MSq12min(g) + MSq12max(g)) THEN 3 ELSE 1

\* getVar( i ).name(): the density's variables are named 1, 2 and 3.
GetVarName(i) == i + 1
DecayVarNames == {GetVarName(0), GetVarName(1), GetVarName(2)}

\* Function: the names it depends on, its parameters, and its value.
Functions ==
  { [vars |-> {1}, pars |-> (1 :> 5), weight |-> 1],
    [vars |-> {2, 3}, pars |-> (2 :> 7), weight |-> 0],
    [vars |-> {}, pars |-> (1 :> 1 @@ 3 :> 2), weight |-> -1],
    [vars |-> {1, 4}, pars |-> (4 :> 1), weight |-> 1],
    [vars |-> {0, 2}, pars |-> (1 :> 9), weight |-> 1],
    [vars |-> {2, 4, 5}, pars |-> (5 :> 1), weight |-> 2] }
DependsOn(f, name) == name \in f.vars
\* Function::evaluate( map ): its weight plus the number of its variables
\* that are at least 4.
FuncEvaluate(f, map) ==
  f.weight + Cardinality({n \in f.vars \cap DOMAIN map : map[n] >= Scale * 4})

\* The density as one value.
Density == [ps |-> ps, amp |-> amp, norm |-> norm, funcs |-> funcs,
            parMap |-> decayParMap]

\* The loop of evaluateFuncs: varMap is not cleared between two functions.
RECURSIVE FuncsLoop(_, _, _, _, _, _)
FuncsLoop(fs, value, map, mSq12, mSq13, mSq23) ==
  IF fs = <<>> THEN value
  ELSE LET func == Head(fs)
           m1 == IF DependsOn(func, GetVarName(0))
                 THEN MapAssign(map, GetVarName(0), mSq12) ELSE map
           m2 == IF DependsOn(func, GetVarName(1))
                 THEN MapAssign(m1, GetVarName(1), mSq13) ELSE m1
           m3 == IF DependsOn(func, GetVarName(2))
                 THEN MapAssign(m2, GetVarName(2), mSq23) ELSE m2
       IN FuncsLoop(Tail(fs), value * FuncEvaluate(func, m3), m3, mSq12, mSq13, mSq23)

\* Decay3Body::evaluateFuncs( mSq12, mSq13, mSq23 )
EvaluateFuncs(d, mSq12, mSq13, mSq23) ==
  LET value == FuncsLoop(d.funcs, 1, EmptyMap, mSq12, mSq13, mSq23)
  IN IF value > 0 THEN value ELSE 0

\* min + step * ( bin + 0.5 ), with step = ( max - min ) / nBins.
BinCentre(min, max, bin) == Scale * min + (max - min) * (2 * bin + 1)

\* What one bin of the grid of cache() adds to _norm.
CacheBin(d, binX, binY) ==
  LET min == MSq12min(d.ps)
      max == MSq12max(d.ps)
      mSq12 == BinCentre(min, max, binX)
      mSq13 == BinCentre(min, max, binY)
      mSq23 == Scale * MSqSum(d.ps) - mSq12 - mSq13
  IN IF Contains(d.ps, mSq12, mSq13, mSq23)
     THEN AmpNorm(d.amp, d.ps, mSq12, mSq13, mSq23) * EvaluateFuncs(d, mSq12, mSq13, mSq23)
     ELSE 0

RECURSIVE CacheLoop(_, _)
CacheLoop(d, bins) ==
  IF bins = {} THEN 0
  ELSE LET b == CHOOSE b \in bins : TRUE
       IN CacheBin(d, b[1], b[2]) + CacheLoop(d, bins \ {b})

\* Decay3Body::cache(): the value _norm is left with.
Cache(d) ==
  LET min == MSq12min(d.ps)
      max == MSq12max(d.ps)
      sum == CacheLoop(d, (0..(NBins - 1)) \X (0..(NBins - 1)))
  IN Rat(sum * (max - min) * (max - min), NBins * NBins)

\* Decay3Body::evaluate( mSq12, mSq13, mSq23 )
Evaluate3(d, mSq12, mSq13, mSq23) ==
  LET value == AmpNorm(d.amp, d.ps, mSq12, mSq13, mSq23)
                 * EvaluateFuncs(d, mSq12, mSq13, mSq23)
  IN Rat(value * d.norm[2], d.norm[1])

\* A variant that hands the second argument on as the third mass.
Evaluate2_NoSum(d, mSq12, mSq13) ==
  LET value == AmpNorm(d.amp, d.ps, mSq12, mSq13, mSq13)
                 * EvaluateFuncs(d, mSq12, mSq13, mSq13)
  IN Rat(value * d.norm[2], d.norm[1])

\* Decay3Body::evaluate( mSq12, mSq13 )
Evaluate2(d, mSq12, mSq13) ==
  LET mSq23 == Scale * MSqSum(d.ps) - mSq12 - mSq13
      value == AmpNorm(d.amp, d.ps, mSq12, mSq13, mSq23)
                 * EvaluateFuncs(d, mSq12, mSq13, mSq23)
  IN Rat(value * d.norm[2], d.norm[1])

Returned(value) == [err |-> FALSE, value |-> value]
Thrown == [err |-> TRUE, value |-> <<0, 0>>]

\* A variant that takes three arguments only.
EvaluateVec_ThreeOnly(d, vec) ==
  IF Len(vec) = 3 THEN Returned(Evaluate3(d, vec[1], vec[2], vec[3]))
  ELSE Thrown

\* Decay3Body::evaluate( const std::vector< double >& )
EvaluateVec(d, vec) ==
  LET size == Len(vec)
  IN IF size = 2 THEN Returned(Evaluate2(d, vec[1], vec[2]))
     ELSE IF size = 3 THEN Returned(Evaluate3(d, vec[1], vec[2], vec[3]))
     ELSE Thrown

\* The loop over the function's variables, in the order of its map: the first
\* one the density does not have, if any.
RECURSIVE FirstForeign(_)
FirstForeign(names) ==
  IF names = <<>> THEN <<>>
  ELSE IF Head(names) \notin DecayVarNames THEN <<Head(names)>>
  ELSE FirstForeign(Tail(names))

\* A variant that looks at the first variable of the function only.
TimesAssign_FirstOnly(d, right) ==
  LET names == SortedSeq(right.vars)
      merged == [d EXCEPT !.parMap = MapInsert(d.parMap, right.pars),
                          !.funcs = Append(d.funcs, right)]
  IN IF names # <<>> /\ Head(names) \notin DecayVarNames THEN [err |-> TRUE, d |-> d]
     ELSE [err |-> FALSE, d |-> [merged EXCEPT !.norm = Cache(merged)]]

\* A variant whose merge overwrites the parameters the density already has.
TimesAssign_Overwrite(d, right) ==
  IF FirstForeign(SortedSeq(right.vars)) # <<>> THEN [err |-> TRUE, d |-> d]
  ELSE LET merged == [d EXCEPT !.parMap = MapInsert(right.pars, d.parMap),
                               !.funcs = Append(d.funcs, right)]
       IN [err |-> FALSE, d |-> [merged EXCEPT !.norm = Cache(merged)]]

\* Decay3Body::operator*=( const Function& )
TimesAssign(d, right) ==
  IF FirstForeign(SortedSeq(right.vars)) # <<>> THEN [err |-> TRUE, d |-> d]
  ELSE LET merged == [d EXCEPT !.parMap = MapInsert(d.parMap, right.pars),
                               !.funcs = Append(d.funcs, right)]
       IN [err |-> FALSE, d |-> [merged EXCEPT !.norm = Cache(merged)]]

\* operator*( Decay3Body left, const Function& right )
TimesLeft(left, right) ==
  IF FirstForeign(SortedSeq(right.vars)) # <<>> THEN [err |-> TRUE, d |-> left]
  ELSE LET merged == [left EXCEPT !.parMap = MapInsert(left.parMap, right.pars),
                                  !.funcs = Append(left.funcs, right)]
       IN [err |-> FALSE, d |-> [merged EXCEPT !.norm = Cache(merged)]]

\* operator*( const Function& left, Decay3Body right )
TimesRight(left, right) ==
  IF FirstForeign(SortedSeq(left.vars)) # <<>> THEN [err |-> TRUE, d |-> right]
  ELSE LET merged == [right EXCEPT !.parMap = MapInsert(right.parMap, left.pars),
                                   !.funcs = Append(right.funcs, left)]
       IN [err |-> FALSE, d |-> [merged EXCEPT !.norm = Cache(merged)]]

\* x < y on doubles: false when y is not a number, true when y is +infinity.
Less(x, y) ==
  IF y[2] = 0 THEN y[1] > 0
  ELSE x[1] * y[2] < y[1] * x[2]

\* A variant that leaves mSq23 at the 0.0 it is declared with.
Attempt_NoThird(d, mSq12, mSq13, draw) ==
  LET pdfVal == Evaluate3(d, mSq12, mSq13, 0)
  IN [values |-> (GetVarName(0) :> mSq12 @@ GetVarName(1) :> mSq13
                    @@ GetVarName(2) :> 0),
      accept |-> Less(RInt(draw), pdfVal)]

\* One pass of the loop of generate(), with what Random::flat drew: the
\* values map after it and whether the point is accepted.
Attempt(d, mSq12, mSq13, draw) ==
  LET mSqSum == Scale * MSqSum(d.ps)
      mSq23 == mSqSum - mSq12 - mSq13
      pdfVal == Evaluate3(d, mSq12, mSq13, mSq23)
  IN [values |-> (GetVarName(0) :> mSq12 @@ GetVarName(1) :> mSq13
                    @@ GetVarName(2) :> mSq23),
      accept |-> Less(RInt(draw), pdfVal)]

----------------------------------------------------------------------------
(* The inputs of the calls.                                                *)

\* Parameters handed to *= and /=.
Params == {[name |-> 1, value |-> 2], [name |-> 3, value |-> 1]}

\* Constants handed to *= and /=.
Ctnts == {2, 3}

\* Parameter expressions handed to *= and /=: p3, -p2 and p1 ^ 2.
ParamExprs ==
  { [expression |-> <<"p">>, pars |-> <<[name |-> 3, value |-> 2]>>,
     ctnts |-> <<>>, opers |-> <<>>],
    [expression |-> <<"p", "u">>, pars |-> <<[name |-> 2, value |-> 1]>>,
     ctnts |-> <<>>, opers |-> <<"minus">>],
    [expression |-> <<"p", "c", "b">>, pars |-> <<[name |-> 1, value |-> 2]>>,
     ctnts |-> <<2>>, opers |-> <<"pow">>] }
NoExpr == [expression |-> <<>>, pars |-> <<>>, ctnts |-> <<>>, opers |-> <<>>]

\* Sub-expressions handed to += and *=, each built by the composition
\* operators from an empty composite.
PdfOf(m) == Assign(EmptyPdf, m).pdf
SubPdfs == { EmptyPdf, PdfOf("B"), PdfOf("C"),
             TimesAssignModel(PdfOf("A"), "B").pdf,
             TimesAssignCtnt(PdfOf("C"), 2).pdf }

\* Positional vectors handed to setVars and setPars.
Values == {1, 2}
Vectors == UNION {[1..k -> Values] : k \in 0..MaxVec}

----------------------------------------------------------------------------
(* The composite's state machine.                                          *)

\* A call and whether it threw.
Call(op, err) == [op |-> op, err |-> err]

\* The composite of a specification that makes no call on it.
PdfUnused ==
  /\ expression = <<>> /\ pdfs = <<>> /\ pars = <<>> /\ ctnts = <<>> /\ opers = <<>>
  /\ varMap = EmptyMap /\ parMap = EmptyMap
  /\ modelVarMap = [m \in ModelIds |-> [n \in ModelVarNames(m) |-> 1]]
  /\ modelParMap = [m \in ModelIds |-> [n \in ModelParNames(m) |-> 1]]
  /\ last = [op |-> "init", err |-> FALSE]

\* The density of a specification that makes no call on it.
DecayUnused ==
  /\ ps = [mMother |-> 3, m1 |-> 0, m2 |-> 1, m3 |-> 0] /\ amp = "flat"
  /\ norm = <<1, 1>> /\ funcs = <<>> /\ decayParMap = EmptyMap
  /\ gen = [pc |-> "idle", count |-> 0, accepted |-> FALSE, values |-> EmptyMap]
  /\ dlast = [op |-> "init", err |-> FALSE, size |-> 0]
  /\ dret = [err |-> FALSE, value |-> <<0, 0>>]

InitPdf ==
  /\ expression = <<>> /\ pdfs = <<>> /\ pars = <<>> /\ ctnts = <<>> /\ opers = <<>>
  /\ varMap = EmptyMap /\ parMap = EmptyMap
  /\ modelVarMap = [m \in ModelIds |-> [n \in ModelVarNames(m) |-> 1]]
  /\ modelParMap = [m \in ModelIds |-> [n \in ModelParNames(m) |-> 1]]
  /\ last = Call("init", FALSE)
  /\ DecayUnused

\* The composite becomes r.pdf, provided it fits the bound.
Store(r) ==
  /\ Len(r.pdf.expression) <= MaxLen
  /\ expression' = r.pdf.expression /\ pdfs' = r.pdf.pdfs /\ pars' = r.pdf.pars
  /\ ctnts' = r.pdf.ctnts /\ opers' = r.pdf.opers
  /\ varMap' = r.pdf.varMap /\ parMap' = r.pdf.parMap
  /\ UNCHANGED <<modelVarMap, modelParMap>>
  /\ UNCHANGED decayVars

DoAssign(m) ==
  LET r == Assign(This, m)
  IN Store(r) /\ last' = Call("assign", r.err)

DoPlusModel(m) ==
  LET r == PlusAssignModel(This, m)
  IN Store(r) /\ last' = Call("plusModel", r.err)

DoTimesModel(m) ==
  LET r == TimesAssignModel(This, m)
  IN Store(r) /\ last' = Call("timesModel", r.err)

DoPlusPdf(q) ==
  LET r == PlusAssignPdf(This, q)
  IN Store(r) /\ last' = Call("plusPdf", r.err)

DoTimesPdf(q) ==
  LET r == TimesAssignPdf(This, q)
  IN Store(r) /\ last' = Call("timesPdf", r.err)

DoTimesPar(par) ==
  LET r == TimesAssignPar(This, par)
  IN Store(r) /\ last' = Call("timesPar", r.err)

DoDivPar(par) ==
  LET r == DivAssignPar(This, par)
  IN Store(r) /\ last' = Call("divPar", r.err)

DoTimesExpr(e) ==
  LET r == TimesAssignExpr(This, e)
  IN Store(r) /\ last' = Call("timesExpr", r.err)

DoDivExpr(e) ==
  LET r == DivAssignExpr(This, e)
  IN Store(r) /\ last' = Call("divExpr", r.err)

DoTimesCtnt(c) ==
  LET r == TimesAssignCtnt(This, c)
  IN Store(r) /\ last' = Call("timesCtnt", r.err)

DoDivCtnt(c) ==
  LET r == DivAssignCtnt(This, c)
  IN Store(r) /\ last' = Call("divCtnt", r.err)

DoSetVars(vec) ==
  LET r == SetVars(This, modelVarMap, vec)
  IN /\ varMap' = r.own /\ modelVarMap' = r.models
     /\ last' = Call("setVars", r.err)
     /\ UNCHANGED <<expression, pdfs, pars, ctnts, opers, parMap, modelParMap>>
     /\ UNCHANGED decayVars

DoSetPars(vec) ==
  LET r == SetPars(This, modelParMap, vec)
  IN /\ parMap' = r.own /\ modelParMap' = r.models
     /\ last' = Call("setPars", r.err)
     /\ UNCHANGED <<expression, pdfs, pars, ctnts, opers, varMap, modelVarMap>>
     /\ UNCHANGED decayVars

DoEvaluate ==
  LET r == Evaluate(This)
  IN /\ last' = Call("evaluate", (r.status # "ok"))
     /\ UNCHANGED <<expression, pdfs, pars, ctnts, opers, varMap, parMap,
                    modelVarMap, modelParMap>>
     /\ UNCHANGED decayVars

DoCommonVars ==
  LET r == CommonVars(This)
  IN /\ last' = Call("commonVars", (r.status # "ok"))
     /\ UNCHANGED <<expression, pdfs, pars, ctnts, opers, varMap, parMap,
                    modelVarMap, modelParMap>>
     /\ UNCHANGED decayVars

NextPdf ==
  \/ \E m \in ModelIds : DoAssign(m)
  \/ \E m \in ModelIds : DoPlusModel(m)
  \/ \E m \in ModelIds : DoTimesModel(m)
  \/ \E q \in SubPdfs : DoPlusPdf(q)
  \/ \E q \in SubPdfs : DoTimesPdf(q)
  \/ \E par \in Params : DoTimesPar(par)
  \/ \E par \in Params : DoDivPar(par)
  \/ \E e \in ParamExprs : DoTimesExpr(e)
  \/ \E e \in ParamExprs : DoDivExpr(e)
  \/ \E c \in Ctnts : DoTimesCtnt(c)
  \/ \E c \in Ctnts : DoDivCtnt(c)
  \/ DoEvaluate
  \/ DoCommonVars

SpecPdf == InitPdf /\ [][NextPdf]_vars

\* The composite under the positional setters.
Short == Len(expression') <= MaxSetLen

NextSet ==
  \/ \E m \in ModelIds : DoAssign(m) /\ Short
  \/ \E m \in ModelIds : DoPlusModel(m) /\ Short
  \/ \E m \in ModelIds : DoTimesModel(m) /\ Short
  \/ \E par \in Params : DoTimesPar(par) /\ Short
  \/ \E vec \in Vectors : DoSetVars(vec)
  \/ \E vec \in Vectors : DoSetPars(vec)

SpecSet == InitPdf /\ [][NextSet]_vars

----------------------------------------------------------------------------
(* The density's state machine.                                            *)

\* What Random::flat( min, max ) draws for mSq12 and for mSq13.
Draws12(g) ==
  {Scale * x : x \in {y \in MSq12min(g)..(MSq12max(g) - 1) : (y - MSq12min(g)) % 3 = 0}}
Draws13(g) ==
  {Scale * x : x \in {y \in MSq13min(g)..(MSq13max(g) - 1) : (y - MSq13min(g)) % 3 = 0}}
\* What Random::flat( 0.0, _maxPdf ) draws.
AcceptDraws == {0, 1, MaxPdf - 1}

\* Positional vectors handed to evaluate.
ArgVectors == {[i \in 1..k |-> Scale * i] : k \in 0..MaxArgs}
                \cup {[i \in 1..k |-> Scale * 4] : k \in 0..MaxArgs}

DCall(op, err, size) == [op |-> op, err |-> err, size |-> size]

\* generate() is not running and has returned nothing that is still held.
GenIdle == [pc |-> "idle", count |-> 0, accepted |-> FALSE, values |-> EmptyMap]
\* No value returned by evaluate is held.
NoValue == [err |-> FALSE, value |-> <<0, 0>>]

InitDecay ==
  /\ ps \in PhaseSpaces /\ amp \in Amplitudes
  /\ funcs = <<>> /\ decayParMap = (1 :> 1)
  /\ norm = Cache([ps |-> ps, amp |-> amp, norm |-> <<1, 1>>, funcs |-> <<>>,
                   parMap |-> (1 :> 1)])
  /\ gen = GenIdle
  /\ dlast = DCall("init", FALSE, 0)
  /\ dret = NoValue
  /\ PdfUnused

\* The density becomes r.d, provided its function list fits the bound.
StoreDensity(r) ==
  /\ gen.pc # "loop"
  /\ Len(r.d.funcs) <= MaxFuncs
  /\ norm' = r.d.norm /\ funcs' = r.d.funcs /\ decayParMap' = r.d.parMap
  /\ gen' = GenIdle /\ dret' = NoValue
  /\ UNCHANGED <<ps, amp>>
  /\ UNCHANGED pdfVars

\* density *= f
DoTimesFunction(f) ==
  LET r == TimesAssign(Density, f)
  IN StoreDensity(r) /\ dlast' = DCall("timesAssign", r.err, 0)

\* density = density * f; nothing is assigned when the product throws.
DoTimesLeft(f) ==
  LET r == TimesLeft(Density, f)
  IN StoreDensity(r) /\ dlast' = DCall("timesLeft", r.err, 0)

\* density = f * density
DoTimesRight(f) ==
  LET r == TimesRight(f, Density)
  IN StoreDensity(r) /\ dlast' = DCall("timesRight", r.err, 0)

DoCache ==
  /\ gen.pc # "loop"
  /\ norm' = Cache(Density)
  /\ dlast' = DCall("cache", FALSE, 0)
  /\ gen' = GenIdle /\ dret' = NoValue
  /\ UNCHANGED <<ps, amp, funcs, decayParMap>>
  /\ UNCHANGED pdfVars

DoEvaluateVec(vec) ==
  LET r == EvaluateVec(Density, vec)
  IN /\ gen.pc # "loop"
     /\ dret' = r
     /\ dlast' = DCall("evaluateVec", r.err, Len(vec))
     /\ gen' = GenIdle
     /\ UNCHANGED <<ps, amp, norm, funcs, decayParMap>>
     /\ UNCHANGED pdfVars

\* generate() up to its loop: int count = 10000.
GenBegin ==
  /\ gen.pc # "loop"
  /\ gen' = [pc |-> "loop", count |-> Budget, accepted |-> FALSE, values |-> EmptyMap]
  /\ dlast' = DCall("generate", FALSE, 0)
  /\ dret' = NoValue
  /\ UNCHANGED <<ps, amp, norm, funcs, decayParMap>>
  /\ UNCHANGED pdfVars

\* One pass of while ( count-- ).
GenAttempt(mSq12, mSq13, draw) ==
  LET a == Attempt(Density, mSq12, mSq13, draw)
  IN /\ gen.pc = "loop" /\ gen.count # 0
     /\ gen' = [pc |-> IF a.accept THEN "done" ELSE "loop", count |-> gen.count - 1,
                accepted |-> a.accept, values |-> a.values]
     /\ UNCHANGED <<ps, amp, norm, funcs, decayParMap, dlast, dret>>
     /\ UNCHANGED pdfVars

\* The loop ended with no point accepted.
GenGiveUp ==
  /\ gen.pc = "loop" /\ gen.count = 0
  /\ gen' = [pc |-> "done", count |-> gen.count - 1, accepted |-> FALSE,
             values |-> (GetVarName(0) :> 0 @@ GetVarName(1) :> 0 @@ GetVarName(2) :> 0)]
  /\ UNCHANGED <<ps, amp, norm, funcs, decayParMap, dlast, dret>>
  /\ UNCHANGED pdfVars

NextDecay ==
  \/ \E f \in Functions : DoTimesFunction(f)
  \/ \E f \in Functions : DoTimesLeft(f)
  \/ \E f \in Functions : DoTimesRight(f)
  \/ DoCache
  \/ \E vec \in ArgVectors : DoEvaluateVec(vec)
  \/ GenBegin
  \/ \E mSq12 \in Draws12(ps), mSq13 \in Draws13(ps), draw \in AcceptDraws :
       GenAttempt(mSq12, mSq13, draw)
  \/ GenGiveUp

SpecDecay == InitDecay /\ [][NextDecay]_vars

\* Any step of a running generate(), whatever it draws and decides: the
\* function stays in its loop or leaves it, and nothing but its locals change.
GenStep ==
  /\ gen.pc = "loop"
  /\ gen' \in [pc : {"loop", "done"}, count : (0 - 1)..Budget, accepted : BOOLEAN,
               values : [DecayVarNames -> (0 - Scale * MSqSum(ps))..(Scale * MSqSum(ps))]]
  /\ UNCHANGED <<ps, amp, norm, funcs, decayParMap, dlast, dret>>
  /\ UNCHANGED pdfVars

\* generate() is one sequential loop with no wait in it: once begun, the
\* thread that called it keeps taking steps until the function returns.
SpecGenerate == InitDecay /\ [][NextDecay]_vars /\ WF_vars(GenStep)

----------------------------------------------------------------------------
(* Properties of the composite.                                            *)

\* The collections and maps of the composite are as before the step.
SamePdf == UNCHANGED <<expression, pdfs, pars, ctnts, opers, varMap, parMap>>

\* C1: whenever evaluate() has run on a non-empty composite built by the
\* composition operators, it consumed every token without an error and ended
\* with exactly one value on the stack.
C1_EvaluateLeavesOneValue ==
  (last.op = "evaluate" /\ expression # <<>>) =>
    /\ Evaluate(This).status = "ok"
    /\ Evaluate(This).consumed = Len(expression)

\* C2: commonVars() of the product of two models with disjoint variable
\* names is the union of their names, and of the sum of two models with the
\* same variable names is that shared set of names.
C2_CommonVarsOfProductAndSum ==
  (last.op = "commonVars" /\ expression = <<"m", "m", "b">>) =>
    LET x == DOMAIN modelVarMap[pdfs[1]]
        y == DOMAIN modelVarMap[pdfs[2]]
    IN /\ (opers = <<"mult">> /\ x \cap y = {}) =>
            CommonVars(This) = NamesResult("ok", SortedSeq(x \cup y))
       /\ (opers = <<"plus">> /\ x = y) =>
            CommonVars(This) = NamesResult("ok", SortedSeq(x))

\* C4: += with a model or a sub-expression whose variable names differ from
\* the composite's throws and leaves the composite as it was; with the same
\* variable names it appends the operand and then a plus operator.
C4_SumRequiresSameVariables ==
  [][ /\ last'.op = "plusModel" => \A m \in ModelIds : DoPlusModel(m) =>
           IF DOMAIN varMap # DOMAIN modelVarMap[m]
           THEN last'.err /\ SamePdf
           ELSE /\ ~last'.err
                /\ expression' = expression \o <<"m", "b">>
                /\ pdfs' = Append(pdfs, m)
                /\ opers' = Append(opers, "plus")
                /\ pars' = pars /\ ctnts' = ctnts
      /\ last'.op = "plusPdf" => \A q \in SubPdfs : DoPlusPdf(q) =>
           IF DOMAIN varMap # DOMAIN q.varMap
           THEN last'.err /\ SamePdf
           ELSE /\ ~last'.err
                /\ expression' = expression \o q.expression \o <<"b">>
                /\ pdfs' = pdfs \o q.pdfs
                /\ opers' = opers \o q.opers \o <<"plus">>
                /\ pars' = pars \o q.pars /\ ctnts' = ctnts \o q.ctnts
    ]_vars

\* A sum with a sub-expression over other variables has just been refused on
\* a composite that holds something.
C4_Witness ==
  /\ last = Call("plusPdf", TRUE)
  /\ Len(expression) >= 3

\* C5: *= with a model or a sub-expression that shares a variable name with
\* the composite throws and leaves the composite as it was; with disjoint
\* variable names it appends the operand and then a multiply operator.
C5_ProductRequiresDisjointVariables ==
  [][ /\ last'.op = "timesModel" => \A m \in ModelIds : DoTimesModel(m) =>
           IF DOMAIN varMap \cap DOMAIN modelVarMap[m] # {}
           THEN last'.err /\ SamePdf
           ELSE /\ ~last'.err
                /\ expression' = expression \o <<"m", "b">>
                /\ pdfs' = Append(pdfs, m)
                /\ opers' = Append(opers, "mult")
                /\ pars' = pars /\ ctnts' = ctnts
      /\ last'.op = "timesPdf" => \A q \in SubPdfs : DoTimesPdf(q) =>
           IF DOMAIN varMap \cap DOMAIN q.varMap # {}
           THEN last'.err /\ SamePdf
           ELSE /\ ~last'.err
                /\ expression' = expression \o q.expression \o <<"b">>
                /\ pdfs' = pdfs \o q.pdfs
                /\ opers' = opers \o q.opers \o <<"mult">>
                /\ pars' = pars \o q.pars /\ ctnts' = ctnts \o q.ctnts
    ]_vars

\* A product with a model that shares a variable has just been refused on a
\* composite of two variables.
C5_Witness ==
  /\ last = Call("timesModel", TRUE)
  /\ DOMAIN varMap = {1, 2}

\* C8: setVars (setPars) with a vector whose length is not the number of
\* names throws and changes no value of the composite or of a model; with
\* the right length the i-th value goes to the i-th name in ascending order
\* and every embedded model's values equal the composite's.
C8_PositionalSetters ==
  [][ /\ last'.op = "setVars" => \A vec \in Vectors : DoSetVars(vec) =>
           IF Len(vec) # Cardinality(DOMAIN varMap)
           THEN last'.err /\ varMap' = varMap /\ modelVarMap' = modelVarMap
           ELSE /\ ~last'.err
                /\ DOMAIN varMap' = DOMAIN varMap
                /\ \A i \in 1..Len(vec) : varMap'[SortedSeq(DOMAIN varMap)[i]] = vec[i]
                /\ \A k \in 1..Len(pdfs) : \A n \in DOMAIN modelVarMap'[pdfs[k]] :
                     modelVarMap'[pdfs[k]][n] = varMap'[n]
      /\ last'.op = "setPars" => \A vec \in Vectors : DoSetPars(vec) =>
           IF Len(vec) # Cardinality(DOMAIN parMap)
           THEN last'.err /\ parMap' = parMap /\ modelParMap' = modelParMap
           ELSE /\ ~last'.err
                /\ DOMAIN parMap' = DOMAIN parMap
                /\ \A i \in 1..Len(vec) : parMap'[SortedSeq(DOMAIN parMap)[i]] = vec[i]
                /\ \A k \in 1..Len(pdfs) : \A n \in DOMAIN modelParMap'[pdfs[k]] :
                     modelParMap'[pdfs[k]][n] = parMap'[n]
    ]_vars

\* setVars has just assigned two different values to the two variables of a
\* composite that embeds two models.
C8_Witness ==
  /\ last = Call("setVars", FALSE)
  /\ Len(pdfs) = 2
  /\ DOMAIN varMap = {1, 2}
  /\ varMap[1] = 2 /\ varMap[2] = 1
  /\ modelVarMap[pdfs[1]] # modelVarMap[pdfs[2]]

----------------------------------------------------------------------------
(* Properties of the decay density.                                        *)

\* C3: the point generate() returns obeys the containment test of the phase
\* space, or is the all-zero point returned when no attempt was accepted.
C3_GenerateReturnsAllowedPoint ==
  gen.pc = "done" =>
    \/ Contains(ps, gen.values[GetVarName(0)], gen.values[GetVarName(1)],
                gen.values[GetVarName(2)])
    \/ /\ ~gen.accepted
       /\ \A n \in DecayVarNames : gen.values[n] = 0

TimesOps == {"timesAssign", "timesLeft", "timesRight"}

\* C6: density *= f with a function that has a variable the density has not
\* throws, wherever that variable stands among the function's variables,
\* and leaves the function list, the parameter map and the normalization
\* as they were.
C6_ForeignVariableRefused ==
  [][ dlast'.op = "timesAssign" =>
        \A f \in Functions : DoTimesFunction(f) =>
          IF f.vars \subseteq DecayVarNames
          THEN ~dlast'.err
          ELSE dlast'.err /\ UNCHANGED <<funcs, decayParMap, norm>>
    ]_vars

\* density *= f has just been refused on a density that holds a function.
C6_Witness ==
  /\ dlast = DCall("timesAssign", TRUE, 0)
  /\ Len(funcs) = 1

\* C7 as stated: after a product that did not throw, the parameter map holds
\* the function's value for every parameter of the function, also for a name
\* the density had before.
C7_CollisionsOverwrite ==
  [][ (dlast'.op \in TimesOps /\ ~dlast'.err) =>
        LET f == funcs'[Len(funcs')]
        IN \A n \in DOMAIN f.pars : decayParMap'[n] = f.pars[n]
    ]_vars

\* C7 as amended: after a product that did not throw, the parameter map has
\* the names of both; a name the density had before keeps the density's
\* value, and a new name gets the function's value.
C7_CollisionsKeepOwnValue ==
  [][ (dlast'.op \in TimesOps /\ ~dlast'.err) =>
        LET f == funcs'[Len(funcs')]
        IN /\ DOMAIN decayParMap' = DOMAIN decayParMap \cup DOMAIN f.pars
           /\ \A n \in DOMAIN f.pars :
                decayParMap'[n] = IF n \in DOMAIN decayParMap
                                  THEN decayParMap[n] ELSE f.pars[n]
    ]_vars

\* The density has just been multiplied by a function whose parameter 1 is 5
\* while the density's own parameter 1 was 1.
C7_Witness ==
  /\ dlast = DCall("timesAssign", FALSE, 0)
  /\ funcs # <<>>
  /\ funcs[Len(funcs)].pars = (1 :> 5)
  /\ decayParMap[1] = 1

\* What one bin adds to the integral over the bounding rectangle of
\* ( mSq12, mSq13 ).
RectangleBin(d, binX, binY) ==
  LET mSq12 == BinCentre(MSq12min(d.ps), MSq12max(d.ps), binX)
      mSq13 == BinCentre(MSq13min(d.ps), MSq13max(d.ps), binY)
      mSq23 == Scale * MSqSum(d.ps) - mSq12 - mSq13
  IN IF Contains(d.ps, mSq12, mSq13, mSq23)
     THEN AmpNorm(d.amp, d.ps, mSq12, mSq13, mSq23) * EvaluateFuncs(d, mSq12, mSq13, mSq23)
     ELSE 0

RECURSIVE RectangleSum(_, _)
RectangleSum(d, bins) ==
  IF bins = {} THEN 0
  ELSE LET b == CHOOSE b \in bins : TRUE
       IN RectangleBin(d, b[1], b[2]) + RectangleSum(d, bins \ {b})

\* C9: the normalization cache() leaves is the area of a bin times the sum,
\* over the bin centres of the bounding rectangle [m12min, m12max] x
\* [m13min, m13max] that pass the containment test, of the squared amplitude
\* times the functions.
C9_NormOverBoundingRectangle ==
  dlast.op = "cache" =>
  norm = Rat(RectangleSum(Density, (0..(NBins - 1)) \X (0..(NBins - 1)))
               * (MSq12max(ps) - MSq12min(ps)) * (MSq13max(ps) - MSq13min(ps)),
             NBins * NBins)

\* C10 as stated: evaluate( values ) throws exactly when the length of values
\* is not the number of variables of the density.
C10_LengthMustBeVariableCount ==
  dlast.op = "evaluateVec" => (dlast.err <=> dlast.size # Cardinality(DecayVarNames))

\* C10 as amended: evaluate( values ) throws exactly when the length of
\* values is neither 2 nor 3.
C10_LengthMustBeTwoOrThree ==
  dlast.op = "evaluateVec" => (dlast.err <=> dlast.size \notin {2, 3})

\* evaluate( values ) has just returned a value for two arguments.
C10_Witness ==
  /\ dlast = DCall("evaluateVec", FALSE, 2)
  /\ dret.value[2] # 0

\* The points evaluate is compared at: the two-argument vectors and what
\* generate draws.
C11_Points ==
  {<<vec[1], vec[2]>> : vec \in {v \in ArgVectors : Len(v) = 2}}
    \cup (Draws12(ps) \X Draws13(ps))

\* C11: in every state of the density and at every point, evaluate with two
\* arguments returns what evaluate with three arguments returns when the
\* third is the sum of the squared masses minus the first two.
C11_TwoArgumentsAgreeWithThree ==
  \A pt \in C11_Points :
    EvaluateVec(Density, <<pt[1], pt[2]>>)
      = EvaluateVec(Density, <<pt[1], pt[2], Scale * MSqSum(ps) - pt[1] - pt[2]>>)

\* evaluate with two arguments has just returned a number that is not zero,
\* for a density with a function, where the third mass decides the value.
C11_Witness ==
  /\ dlast = DCall("evaluateVec", FALSE, 2)
  /\ funcs # <<>>
  /\ dret.value[1] # 0 /\ dret.value[2] # 0
  /\ \E pt \in C11_Points :
       /\ dret.value = Evaluate2(Density, pt[1], pt[2])
       /\ dret.value # Evaluate3(Density, pt[1], pt[2], pt[2])

\* C12: commonVars fails on no composite that evaluate accepts: whenever
\* evaluate() ends with one value and no error (constants included, as in a
\* model scaled by a constant), commonVars() returns without an error too.
C12_CommonVarsAcceptsWhatEvaluateAccepts ==
  last.op = "commonVars" =>
    (Evaluate(This).status = "ok" => CommonVars(This).status = "ok" /\ ~last.err)

\* The point of the values map generate() holds.
C13_Point == <<gen.values[GetVarName(0)], gen.values[GetVarName(1)],
               gen.values[GetVarName(2)]>>

\* What generate() has returned: an accepted point, whose third mass is the
\* sum minus the other two, within the budget of attempts; or, after the whole
\* budget, the point of three zeros.
C13_Returned ==
  gen.pc = "done" =>
    IF gen.accepted
    THEN /\ gen.count \in 0..(Budget - 1)
         /\ C13_Point[3] = Scale * MSqSum(ps) - C13_Point[1] - C13_Point[2]
    ELSE /\ gen.count = -1
         /\ C13_Point = <<0, 0, 0>>

\* A pass of the loop uses up one attempt and returns its candidate exactly
\* when the accept draw is below the density there.
C13_Pass ==
  gen.pc = "loop" /\ gen'.pc # "idle" /\ gen' # gen =>
    \A mSq12 \in Draws12(ps), mSq13 \in Draws13(ps), draw \in AcceptDraws :
      GenAttempt(mSq12, mSq13, draw) =>
        LET pdfVal == Evaluate3(Density, mSq12, mSq13,
                                Scale * MSqSum(ps) - mSq12 - mSq13)
            below == IF pdfVal[2] = 0 THEN pdfVal[1] > 0
                     ELSE draw * pdfVal[2] < pdfVal[1]
        IN /\ gen.count >= 1 /\ gen'.count = gen.count - 1
           /\ (gen'.pc = "done") <=> below
           /\ gen'.accepted <=> below
           /\ gen'.values[GetVarName(0)] = mSq12
           /\ gen'.values[GetVarName(1)] = mSq13

\* C13: generate() always terminates. It makes at most the budget of
\* attempts, returns the first candidate whose accept draw is below the
\* density, returns the point of three zeros when no candidate is accepted,
\* and every accepted point has its third mass equal to the sum minus the
\* other two.
C13_GenerateTerminates ==
  /\ [](gen.pc = "loop" => gen.count \in 0..Budget)
  /\ []C13_Returned
  /\ [][C13_Pass]_vars
  /\ (gen.pc = "loop") ~> (gen.pc = "done")

\* generate() has returned a point accepted on the last attempt of its
\* budget, with a third mass that is not zero.
C13_Witness ==
  /\ gen.pc = "done" /\ gen.accepted /\ gen.count = 0
  /\ C13_Point[3] # 0

\* The composite without its last constant and its last operator: what it
\* was before a constant was applied to it.
C14_Before ==
  [This EXCEPT !.expression = SubSeq(expression, 1, Len(expression) - 2),
               !.ctnts = SubSeq(ctnts, 1, Len(ctnts) - 1),
               !.opers = SubSeq(opers, 1, Len(opers) - 1)]

\* C14: a binary operator is applied with the value pushed first on the left
\* and the value pushed last on the right. A composite E that evaluates,
\* followed by /= c, evaluates to the value of E divided by c; the product of
\* model A (value 2) and model B (value 3) evaluates to 6.
C14_LeftOperandIsPushedFirst ==
  /\ last.op = "divCtnt" /\ Evaluate(C14_Before).status = "ok" =>
       LET e == Evaluate(C14_Before).value
           c == ctnts[Len(ctnts)]
       IN /\ Evaluate(This).status = "ok"
          /\ Evaluate(This).value = Rat(e[1], e[2] * c)
  /\ expression = <<"m", "m", "b">> /\ opers = <<"mult">>
       /\ {pdfs[1], pdfs[2]} = {"A", "B"} =>
       /\ Evaluate(This).status = "ok"
       /\ Evaluate(This).value = RInt(6)

\* Model A, of value 2, has just been divided by the constant 3: the value
\* is 2 / 3.
C14_Witness ==
  /\ last.op = "divCtnt"
  /\ expression = <<"m", "c", "b">> /\ pdfs = <<"A">> /\ ctnts = <<3>>
  /\ Evaluate(This).value = <<2, 3>>

\* The number of tokens of the composite that are among toks.
C15_Count(toks) == Cardinality({i \in DOMAIN expression : expression[i] \in toks})

\* The operator tokens of the composite, in order.
C15_OperTokens == SelectSeq(expression, LAMBDA tok : tok \in {"b", "u"})

\* C15: after any sequence of composition operations, failed ones included,
\* every collection has one entry per token of its kind: models for 'm',
\* parameter copies for 'p', constants for 'c', operator identifiers for 'b'
\* and 'u', the identifiers lying in the order of their tokens (a unary one
\* exactly where the token is 'u'); evaluate() never reads past the end of a
\* collection.
C15_CollectionsMatchTokens ==
  /\ C15_Count({"m"}) = Len(pdfs)
  /\ C15_Count({"p"}) = Len(pars)
  /\ C15_Count({"c"}) = Len(ctnts)
  /\ C15_Count({"b", "u"}) = Len(opers)
  /\ C15_Count({"m", "p", "c", "b", "u"}) = Len(expression)
  /\ \A k \in DOMAIN C15_OperTokens :
       k \in DOMAIN opers /\ (C15_OperTokens[k] = "u" <=> opers[k] = "minus")
  /\ Evaluate(This).status \notin {"overrun", "unknown"}

\* A composite holding a model and a parameter expression with a unary
\* operator, on which a composition has just failed.
C15_Witness ==
  /\ last.err /\ last.op \in {"plusModel", "plusPdf", "timesModel", "timesPdf"}
  /\ expression = <<"m", "p", "u", "b">>
  /\ Len(pdfs) = 1 /\ Len(pars) = 1 /\ Len(opers) = 2

====
